---- MODULE Spec2Model ----
(***************************************************************************)
(* Model of vispy.visuals.line.LineVisual (src/vispy/visuals/line.py):     *)
(* the options dictionary, the cached staging buffer (_vbo), the record    *)
(* array behind it (_data), the cached CompositeProgram (_program), and    *)
(* the operations __init__, set_data, the transform setter and paint.      *)
(*                                                                         *)
(* CompositeProgram, the function templates' bind() and the transform's    *)
(* bind_map() live in vispy.shaders.composite and vispy.visuals.transforms *)
(* and are modelled from the written specification (sections 4.1 - 4.4).   *)
(***************************************************************************)
EXTENDS Integers, Sequences, FiniteSets, TLC

(***************************************************************************)
(* Bounds of the model.                                                    *)
(***************************************************************************)
\* largest number of rows (vertices) of a position or color array
MaxN == 2
\* widths range over 1..MaxWidth
MaxWidth == 2

(***************************************************************************)
(* Values.  Python's None is a sentinel record of each value type, so that *)
(* every variable keeps one shape.                                         *)
(***************************************************************************)
\* pos: an (n, arity) array; PosEmpty is an array with no rows
PosNone == [n |-> -1, arity |-> 0]
PosEmpty == [n |-> 0, arity |-> 2]
PosArrays == [n : 1..MaxN, arity : {2, 3}] \cup {PosEmpty}
PosArgs == PosArrays \cup {PosNone}

\* color: a single RGBA value, named by rgba, or an (n, comps) array
ColorNone == [array |-> FALSE, n |-> -1, comps |-> 0, rgba |-> ""]
White == [array |-> FALSE, n |-> 0, comps |-> 4, rgba |-> "(1, 1, 1, 1)"]
Red == [array |-> FALSE, n |-> 0, comps |-> 4, rgba |-> "(1, 0, 0, 1)"]
ColorValues == {White, Red}
ColorArrays == [array : {TRUE}, n : 1..MaxN, comps : {4}, rgba : {""}]
ColorArgs == ColorValues \cup ColorArrays \cup {ColorNone}

WidthNone == -1
WidthArgs == (1..MaxWidth) \cup {WidthNone}

Transforms == {"NullTransform", "STTransform"}

\* the points of _build_program at which a collaborator's call can raise
FailPoints == {"VertexBuffer", "pos_func", "set_hook:local_position", "bind_map",
               "set_hook:map_local_to_nd", "color_func", "set_hook:frag_color"}
FailArgs == FailPoints \cup {"none"}

(***************************************************************************)
(* The master templates and their hooks.                                   *)
(***************************************************************************)
vertex_shader == {"local_position", "map_local_to_nd", "post_hook"}
fragment_shader == {"frag_color"}

\* post_hook is optional (section 6 of the specification)
OptionalHooks == {"post_hook"}

(***************************************************************************)
(* Function instances: a template bound to a name, its declared variables  *)
(* (storage class, type, name) and the values staged for upload.           *)
(***************************************************************************)
NoData == [set |-> FALSE, pos |-> PosNone, hasColor |-> FALSE, colorComps |-> 0,
           color |-> ColorNone]
VboNone == [exists |-> FALSE, field |-> "", data |-> NoData]

\* a staged value: a buffer (or a field of it), a float, or an RGBA value
Staged(name, kind, vbo, num, color) ==
    [name |-> name, kind |-> kind, vbo |-> vbo, num |-> num, color |-> color]

\* a hook with no bound instance
NoFunc == [template |-> "", name |-> "", twoStage |-> FALSE, decls |-> {},
           staged |-> {}]

\* vbo['pos'], vbo['color']: the view of one field of the buffer
VboField(vbo, f) == [vbo EXCEPT !.field = f]

Hooks == vertex_shader \cup fragment_shader

\* self._program = None, and a freshly constructed CompositeProgram
ProgNone == [exists |-> FALSE, compiled |-> FALSE, hooks |-> [h \in Hooks |-> NoFunc]]
CompositeProgram == [exists |-> TRUE, compiled |-> FALSE, hooks |-> [h \in Hooks |-> NoFunc]]

\* one observable step of a call: e names it, h and a are its arguments
Event(e, h, a) == [e |-> e, h |-> h, a |-> a]

(***************************************************************************)
(* LineVisual: the state.                                                  *)
(***************************************************************************)
VARIABLES
    opts,        \* self._opts: pos, color, width, transform
    program,     \* self._program
    vbo,         \* self._vbo
    data,        \* self._data
    call,        \* the last call made on the Visual: its arguments, outcome and steps
    epoch,       \* programs constructed and compiled since the last invalidating call
    prevEpoch    \* the same for the period before the last invalidating call

vars == <<opts, program, vbo, data, call, epoch, prevEpoch>>

NoEpoch == [builds |-> 0, compiles |-> 0, drew |-> FALSE]

Call(op, p, c, w, tr, err, events) ==
    [op |-> op, prevOp |-> IF op = "paint" THEN call.op ELSE "", pos |-> p, color |-> c, width |-> w, tr |-> tr,
     err |-> err, events |-> events]

(***************************************************************************)
(* set_data, lines 137-154.                                                *)
(***************************************************************************)
\* a set_data that resets an omitted color and width to their defaults
SetOptsResettingOmitted(o, p, c, w) ==
    [o EXCEPT !.pos = IF p # PosNone THEN p ELSE @,
              !.color = IF c # ColorNone THEN c ELSE White,
              !.width = IF w # WidthNone THEN w ELSE 1]

\* lines 144-149: only the fields given are replaced
SetOpts(o, p, c, w) ==
    [o EXCEPT !.pos = IF p # PosNone THEN p ELSE @,
              !.color = IF c # ColorNone THEN c ELSE @,
              !.width = IF w # WidthNone THEN w ELSE @]

\* a set_data that forgets line 153 and keeps the staging buffer
SetDataCacheKeepingVbo(v, prog) == [vbo |-> v, program |-> ProgNone]

\* a set_data that forgets line 154 and keeps the program
SetDataCacheKeepingProgram(v, prog) == [vbo |-> VboNone, program |-> prog]

\* lines 153-154: the caches after set_data, whatever was given
SetDataCache(v, prog) == [vbo |-> VboNone, program |-> ProgNone]

set_data(p, c, w) ==
    /\ opts' = SetOpts(opts, p, c, w)
    /\ vbo' = SetDataCache(vbo, program).vbo
    /\ program' = SetDataCache(vbo, program).program
    /\ call' = Call("set_data", p, c, w, "", "", <<>>)
    /\ prevEpoch' = epoch
    /\ epoch' = NoEpoch
    /\ UNCHANGED data

(***************************************************************************)
(* The transform setter, lines 132-135.                                    *)
(***************************************************************************)
\* a setter that forgets line 135 and keeps the program
set_transform_keeping_program(tr) ==
    /\ opts' = [opts EXCEPT !.transform = tr]
    /\ program' = program
    /\ call' = Call("transform", PosNone, ColorNone, WidthNone, tr, "", <<>>)
    /\ prevEpoch' = epoch
    /\ epoch' = NoEpoch
    /\ UNCHANGED <<vbo, data>>

set_transform(tr) ==
    /\ opts' = [opts EXCEPT !.transform = tr]
    /\ program' = ProgNone
    /\ call' = Call("transform", PosNone, ColorNone, WidthNone, tr, "", <<>>)
    /\ prevEpoch' = epoch
    /\ epoch' = NoEpoch
    /\ UNCHANGED <<vbo, data>>

(***************************************************************************)
(* _build_vbo, lines 156-172.  numpy raises ValueError at line 169 when    *)
(* the color rows cannot be broadcast to the position rows; the record     *)
(* array of line 166 is then already stored in self._data.                 *)
(***************************************************************************)
\* a test that takes no color for an array (ndim > 2 for ndim > 1)
color_is_never_array(o) == FALSE

\* line 162
color_is_array(o) == o.color.array

build_vbo(o, fail) ==
    LET allocated == [set |-> TRUE, pos |-> o.pos, hasColor |-> color_is_array(o),
                      colorComps |-> IF color_is_array(o) THEN o.color.comps ELSE 0,
                      color |-> ColorNone]
        filled == IF color_is_array(o) THEN [allocated EXCEPT !.color = o.color]
                  ELSE allocated
    IN  IF color_is_array(o) /\ o.color.n \notin {o.pos.n, 1}
        THEN [data |-> allocated, vbo |-> VboNone, err |-> "ValueError", events |-> <<>>]
        ELSE IF fail = "VertexBuffer"
        THEN [data |-> filled, vbo |-> VboNone, err |-> "VertexBuffer", events |-> <<>>]
        ELSE [data |-> filled, vbo |-> [exists |-> TRUE, field |-> "", data |-> filled],
              err |-> "", events |-> <<Event("VertexBuffer", "", o.pos.n)>>]

(***************************************************************************)
(* _get_position_function, lines 206-221.                                  *)
(***************************************************************************)
\* the selection with its test inverted
get_position_function_inverted(d, v) ==
    IF d.pos.arity # 2
    THEN [template |-> "XYInputFunc", name |-> "local_position", twoStage |-> FALSE,
          decls |-> {<<"attribute", "vec2", "input_xy_pos">>,
                     <<"uniform", "float", "input_z_pos">>},
          staged |-> {Staged("input_xy_pos", "buffer", VboField(v, "pos"), 0, ColorNone),
                      Staged("input_z_pos", "float", VboNone, 0, ColorNone)}]
    ELSE [template |-> "XYZInputFunc", name |-> "local_position", twoStage |-> FALSE,
          decls |-> {<<"attribute", "vec3", "input_xyz_pos">>},
          staged |-> {Staged("input_xyz_pos", "buffer", v, 0, ColorNone)}]

get_position_function(d, v) ==
    IF d.pos.arity = 2
    THEN [template |-> "XYInputFunc", name |-> "local_position", twoStage |-> FALSE,
          decls |-> {<<"attribute", "vec2", "input_xy_pos">>,
                     <<"uniform", "float", "input_z_pos">>},
          staged |-> {Staged("input_xy_pos", "buffer", VboField(v, "pos"), 0, ColorNone),
                      Staged("input_z_pos", "float", VboNone, 0, ColorNone)}]
    ELSE [template |-> "XYZInputFunc", name |-> "local_position", twoStage |-> FALSE,
          decls |-> {<<"attribute", "vec3", "input_xyz_pos">>},
          staged |-> {Staged("input_xyz_pos", "buffer", v, 0, ColorNone)}]

(***************************************************************************)
(* _get_color_func, lines 223-235.                                         *)
(***************************************************************************)
\* a selection that gives the color input the name of the position attribute
get_color_func_named_as_position(d, v, o) ==
    IF d.hasColor
    THEN [template |-> "RGBAAttributeFunc", name |-> "frag_color", twoStage |-> TRUE,
          decls |-> {<<"attribute", "vec4", "input_xy_pos">>},
          staged |-> {Staged("input_xy_pos", "buffer", VboField(v, "color"), 0, ColorNone)}]
    ELSE [template |-> "RGBAUniformFunc", name |-> "frag_color", twoStage |-> FALSE,
          decls |-> {<<"uniform", "vec4", "input_xyz_pos">>},
          staged |-> {Staged("input_xyz_pos", "rgba", VboNone, 0, o.color)}]

get_color_func(d, v, o) ==
    IF d.hasColor
    THEN [template |-> "RGBAAttributeFunc", name |-> "frag_color", twoStage |-> TRUE,
          decls |-> {<<"attribute", "vec4", "input_color">>},
          staged |-> {Staged("input_color", "buffer", VboField(v, "color"), 0, ColorNone)}]
    ELSE [template |-> "RGBAUniformFunc", name |-> "frag_color", twoStage |-> FALSE,
          decls |-> {<<"uniform", "vec4", "input_color">>},
          staged |-> {Staged("input_color", "rgba", VboNone, 0, o.color)}]

(***************************************************************************)
(* CompositeProgram.set_hook and the transform's bind_map (specification   *)
(* sections 4.3, 4.4 and 6): set_hook overwrites the hook's binding and    *)
(* returns the program to unbuilt; a two-stage function bound to a         *)
(* fragment hook contributes its vertex-stage snippet to post_hook.        *)
(***************************************************************************)
VertexPost(func) ==
    [template |-> "vertex_post", name |-> "post_hook", twoStage |-> FALSE,
     decls |-> func.decls, staged |-> func.staged]

\* the one varying a two-stage function declares for its linked pair
\* (output, rgba), named after the hook (sections 4.2 and 4.3)
LinkedVaryings(func) ==
    IF func.twoStage THEN {<<"varying", "vec4", func.name \o "_output">>} ELSE {}

set_hook(prog, hook, func) ==
    [prog EXCEPT !.compiled = FALSE,
                 !.hooks = IF func.twoStage
                           THEN [@ EXCEPT ![hook] = func, !["post_hook"] = VertexPost(func)]
                           ELSE [@ EXCEPT ![hook] = func]]

bind_map(tr, name) ==
    [template |-> tr, name |-> name, twoStage |-> FALSE, decls |-> {}, staged |-> {}]

(***************************************************************************)
(* _build_program, lines 175-192.  A step whose collaborator raises ends   *)
(* the method there: what was assigned before it stays assigned.           *)
(***************************************************************************)
\* a _build_program that forgets lines 176-177
BuildVboStepSkipped(o, v, d, fail) ==
    [vbo |-> v, data |-> d, err |-> "", events |-> <<>>]

\* lines 176-177
BuildVboStep(o, v, d, fail) ==
    IF v.exists THEN [vbo |-> v, data |-> d, err |-> "", events |-> <<>>]
    ELSE build_vbo(o, fail)

\* lines 183-192, on the program line 180 has stored in self._program
BindHooks(o, v, d, prog, fail) ==
    LET pos_func == get_position_function(d, v)
        p1 == set_hook(prog, "local_position", pos_func)
        tr_bound == bind_map(o.transform, "map_local_to_nd")
        p2 == set_hook(p1, "map_local_to_nd", tr_bound)
        color_func == get_color_func(d, v, o)
        p3 == set_hook(p2, "frag_color", color_func)
        e1 == <<Event("set_hook", "local_position", 0)>>
        e2 == e1 \o <<Event("set_hook", "map_local_to_nd", 0)>>
        e3 == e2 \o <<Event("set_hook", "frag_color", 0)>>
    IN  CASE fail \in {"pos_func", "set_hook:local_position"} ->
                 [program |-> prog, err |-> fail, events |-> <<>>]
          [] fail \in {"bind_map", "set_hook:map_local_to_nd"} ->
                 [program |-> p1, err |-> fail, events |-> e1]
          [] fail \in {"color_func", "set_hook:frag_color"} ->
                 [program |-> p2, err |-> fail, events |-> e2]
          [] OTHER -> [program |-> p3, err |-> "", events |-> e3]

build_program(o, v, d, fail) ==
    LET b == BuildVboStep(o, v, d, fail)
        h == BindHooks(o, b.vbo, b.data, CompositeProgram, fail)
    IN  IF b.err # ""
        THEN [vbo |-> b.vbo, data |-> b.data, program |-> ProgNone, err |-> b.err,
              events |-> b.events, builds |-> 0]
        ELSE [vbo |-> b.vbo, data |-> b.data, program |-> h.program, err |-> h.err,
              events |-> b.events \o <<Event("CompositeProgram", "", 0)>> \o h.events,
              builds |-> 1]

(***************************************************************************)
(* CompositeProgram.draw (specification section 4.4): builds lazily, which *)
(* requires an instance for every hook that is not optional, and issues    *)
(* the draw over the rows of the staged vertex buffer.                     *)
(***************************************************************************)
UnboundHooks(prog) == {h \in Hooks \ OptionalHooks : prog.hooks[h] = NoFunc}

VertexCount(prog) ==
    LET bufs == {s \in prog.hooks["local_position"].staged : s.kind = "buffer"}
    IN  (CHOOSE s \in bufs : TRUE).vbo.data.pos.n

draw(prog, kind) ==
    IF UnboundHooks(prog) # {}
    THEN [program |-> prog, err |-> "IncompleteProgram", events |-> <<>>, compiles |-> 0]
    ELSE [program |-> [prog EXCEPT !.compiled = TRUE], err |-> "",
          events |-> (IF prog.compiled THEN <<>> ELSE <<Event("compile", "", 0)>>)
                     \o <<Event("draw", kind, VertexCount(prog))>>,
          compiles |-> IF prog.compiled THEN 0 ELSE 1]

(***************************************************************************)
(* paint, lines 194-202.                                                   *)
(***************************************************************************)
\* a test that forgets the empty array
NothingToPaintNoneOnly(o) == o.pos = PosNone

\* line 195
NothingToPaint(o) == o.pos = PosNone \/ o.pos.n = 0

\* a paint that rebuilds at every call
NeedsBuildAlways(prog) == TRUE

\* line 198
NeedsBuild(prog) == ~prog.exists

\* line 201: the width handed to gl.glLineWidth
PaintWidth(o) == o.width

\* a paint that draws separate segments
PaintKindLines == "LINES"

\* line 202: the primitive kind handed to draw
PaintKind == "LINE_STRIP"

paint(fail) ==
    IF NothingToPaint(opts)
    THEN /\ call' = Call("paint", PosNone, ColorNone, WidthNone, "", "", <<>>)
         /\ UNCHANGED <<opts, program, vbo, data, epoch, prevEpoch>>
    ELSE LET b == IF NeedsBuild(program)
                  THEN build_program(opts, vbo, data, fail)
                  ELSE [vbo |-> vbo, data |-> data, program |-> program, err |-> "",
                        events |-> <<>>, builds |-> 0]
             d == draw(b.program, PaintKind)
             built == [epoch EXCEPT !.builds = @ + b.builds]
         IN  /\ vbo' = b.vbo
             /\ data' = b.data
             /\ UNCHANGED <<opts, prevEpoch>>
             /\ IF b.err # ""
                THEN /\ program' = b.program
                     /\ epoch' = built
                     /\ call' = Call("paint", PosNone, ColorNone, WidthNone, "", b.err,
                                     b.events)
                ELSE /\ program' = d.program
                     /\ epoch' = [built EXCEPT !.compiles = @ + d.compiles,
                                               !.drew = @ \/ d.err = ""]
                     /\ call' = Call("paint", PosNone, ColorNone, WidthNone, "", d.err,
                                     b.events
                                     \o <<Event("glLineWidth", "", PaintWidth(opts))>>
                                     \o d.events)

(***************************************************************************)
(* __init__, lines 113-126: the defaults, then set_data with the           *)
(* constructor's arguments.                                                *)
(***************************************************************************)
DefaultOpts == [pos |-> PosNone, color |-> White, width |-> 1,
                transform |-> "NullTransform"]

\* a constructor that builds buffer and program as soon as it has positions
InitEager ==
    \E p \in PosArgs, c \in ColorArgs, w \in WidthArgs :
        LET o == SetOpts(DefaultOpts, p, c, w)
            b == IF NothingToPaint(o)
                 THEN [vbo |-> VboNone, data |-> NoData, program |-> ProgNone,
                       err |-> "", events |-> <<>>, builds |-> 0]
                 ELSE build_program(o, VboNone, NoData, "none")
        IN  /\ opts = o
            /\ vbo = b.vbo
            /\ program = b.program
            /\ data = b.data
            /\ call = [op |-> "__init__", prevOp |-> "", pos |-> p, color |-> c,
                       width |-> w, tr |-> "", err |-> "", events |-> b.events]
            /\ epoch = [NoEpoch EXCEPT !.builds = b.builds]
            /\ prevEpoch = NoEpoch

Init ==
    \E p \in PosArgs, c \in ColorArgs, w \in WidthArgs :
        /\ opts = SetOpts(DefaultOpts, p, c, w)
        /\ vbo = SetDataCache(VboNone, ProgNone).vbo
        /\ program = SetDataCache(VboNone, ProgNone).program
        /\ data = NoData
        /\ call = [op |-> "__init__", prevOp |-> "", pos |-> p, color |-> c, width |-> w,
                   tr |-> "", err |-> "", events |-> <<>>]
        /\ epoch = NoEpoch
        /\ prevEpoch = NoEpoch

SetData == \E p \in PosArgs, c \in ColorArgs, w \in WidthArgs : set_data(p, c, w)
SetTransform == \E tr \in Transforms : set_transform(tr)
Paint == \E fail \in FailArgs : paint(fail)

Next == SetData \/ SetTransform \/ Paint

Spec == Init /\ [][Next]_vars

(***************************************************************************)
(* Reading the last call.  A call whose err is "" returned; any other err  *)
(* names the exception that ended it.                                      *)
(***************************************************************************)
EventsNamed(e) == {i \in DOMAIN call.events : call.events[i].e = e}
HasPos == opts.pos # PosNone /\ opts.pos.n > 0
PaintReturned == call.op = "paint" /\ call.err = ""
\* the events of the call, in order, are VertexBuffer, CompositeProgram, draw
RebuiltBothBeforeDraw ==
    \E i \in EventsNamed("VertexBuffer"), j \in EventsNamed("CompositeProgram"),
       k \in EventsNamed("draw") : i < j /\ j < k

(***************************************************************************)
(* C1: after any set_data (the constructor's included), whatever was given *)
(* or omitted, the Visual holds no staging buffer and no program; and the  *)
(* next paint with position data, when it draws, has first constructed a   *)
(* staging buffer and then a program in that same call.                    *)
(***************************************************************************)
C1_SetDataDiscardsCaches ==
    /\ call.op \in {"set_data", "__init__"} => ~vbo.exists /\ ~program.exists
    /\ (PaintReturned /\ call.prevOp \in {"set_data", "__init__"} /\ HasPos)
           => RebuiltBothBeforeDraw

C1_Witness ==
    /\ PaintReturned /\ call.prevOp = "set_data" /\ HasPos
    /\ prevEpoch.drew
    /\ EventsNamed("draw") # {}

(***************************************************************************)
(* C2: set_data giving only a width, on a Visual whose program is          *)
(* compiled, keeps the program compiled.  (The code discards it.)          *)
(***************************************************************************)
WidthOnly ==
    /\ call.op = "set_data"
    /\ call.pos = PosNone /\ call.color = ColorNone /\ call.width # WidthNone

C2_WidthOnlyKeepsProgram ==
    (WidthOnly /\ prevEpoch.compiles = 1) => program.exists /\ program.compiled

(***************************************************************************)
(* C3: set_data replaces exactly the fields it is given and never the      *)
(* transform, and the constructor leaves the defaults color (1, 1, 1, 1),  *)
(* width 1 in the fields it is not given.                                  *)
(***************************************************************************)
Given(arg, none, old) == IF arg = none THEN old ELSE arg

C3_Constructed ==
    call.op = "__init__" =>
        /\ opts.pos = call.pos
        /\ opts.color = Given(call.color, ColorNone, White)
        /\ opts.width = Given(call.width, WidthNone, 1)

C3_Updated ==
    call'.op = "set_data" =>
        /\ opts'.pos = Given(call'.pos, PosNone, opts.pos)
        /\ opts'.color = Given(call'.color, ColorNone, opts.color)
        /\ opts'.width = Given(call'.width, WidthNone, opts.width)
        /\ opts'.transform = opts.transform

C3_PartialUpdate == [](C3_Constructed) /\ [][C3_Updated]_vars

C3_Witness ==
    /\ call.op = "set_data"
    /\ call.pos # PosNone /\ call.color = ColorNone /\ call.width = WidthNone
    /\ opts.color = Red /\ opts.width = MaxWidth /\ opts.transform = "STTransform"

(***************************************************************************)
(* C4: a paint whose _build_program raised leaves the Visual without a     *)
(* cached program.  (The code has stored the program at line 180, before   *)
(* the steps that can raise.)                                              *)
(***************************************************************************)
C4_FailedBuildLeavesUnbuilt ==
    (call.op = "paint" /\ call.err \in FailPoints \cup {"ValueError"})
        => ~program.exists

(***************************************************************************)
(* C5: a paint on a Visual whose pos is None or has no rows does nothing:  *)
(* no step is taken and no field changes.  Any other paint that returns    *)
(* leaves a built program and ends by setting the line width to the        *)
(* current width and issuing the draw.                                     *)
(***************************************************************************)
C5_Step ==
    call'.op = "paint" =>
        IF opts.pos = PosNone \/ opts.pos.n = 0
        THEN /\ call'.events = <<>> /\ call'.err = ""
             /\ UNCHANGED <<opts, program, vbo, data>>
        ELSE call'.err = "" =>
                 /\ program'.exists /\ program'.compiled /\ vbo'.exists
                 /\ Len(call'.events) >= 2
                 /\ \E i \in DOMAIN call'.events :
                        /\ call'.events[i] = Event("glLineWidth", "", opts.width)
                        /\ \A j \in DOMAIN call'.events :
                               j > i => call'.events[j].e \in {"compile", "draw"}
                 /\ call'.events[Len(call'.events)].e = "draw"

C5_PaintNoOpWithoutPos == [][C5_Step]_vars

C5_Witness ==
    /\ call.op = "paint" /\ call.prevOp = "paint"
    /\ opts.pos = PosEmpty
    /\ call.events = <<>>
    /\ data.set

(***************************************************************************)
(* C6: between two invalidating calls (set_data, transform assignment)     *)
(* at most one program is constructed and at most one compiled, however    *)
(* many paints there are; and a paint that follows a paint that drew       *)
(* keeps the cached program and only sets the line width and draws.        *)
(***************************************************************************)
C6_Step ==
    (call.op = "paint" /\ call.err = "" /\ HasPos /\ call'.op = "paint") =>
        /\ program' = program
        /\ vbo' = vbo
        /\ call'.events = <<Event("glLineWidth", "", opts.width),
                            Event("draw", "LINE_STRIP", opts.pos.n)>>

C6_BuildOnce ==
    /\ [](epoch.builds <= 1 /\ epoch.compiles <= 1)
    /\ [][C6_Step]_vars

C6_Witness ==
    /\ PaintReturned /\ call.prevOp = "paint" /\ HasPos
    /\ Len(call.events) = 2
    /\ epoch.builds = 1 /\ epoch.compiles = 1

(***************************************************************************)
(* C7: one rebuild per invalidation.  In the period after an invalidating  *)
(* call a draw is preceded by exactly one program construction and one     *)
(* compilation of that period, so paint, invalidating call, paint with     *)
(* both paints drawing builds and compiles exactly twice; and the paint    *)
(* that follows a set_data never draws a program of the period before.     *)
(***************************************************************************)
C7_RebuildOncePerInvalidation ==
    /\ epoch.drew => epoch.builds = 1 /\ epoch.compiles = 1
    /\ (epoch.drew /\ prevEpoch.drew) =>
           /\ prevEpoch.builds + epoch.builds = 2
           /\ prevEpoch.compiles + epoch.compiles = 2
    /\ (PaintReturned /\ HasPos /\ call.prevOp \in {"set_data", "transform"}) =>
           /\ Cardinality(EventsNamed("CompositeProgram")) = 1
           /\ Cardinality(EventsNamed("compile")) = 1
           /\ \A i \in EventsNamed("CompositeProgram"), j \in EventsNamed("compile"),
                 k \in EventsNamed("draw") : i < j /\ j < k

C7_Witness ==
    /\ PaintReturned /\ HasPos /\ call.prevOp = "set_data"
    /\ epoch.drew /\ prevEpoch.drew
    /\ prevEpoch.builds + epoch.builds = 2

(***************************************************************************)
(* C8: the position function bound to local_position follows the arity of  *)
(* pos: 2 components give XYInputFunc (attribute vec2 input_xy_pos and     *)
(* uniform float input_z_pos staged to 0.0), 3 components give             *)
(* XYZInputFunc (attribute vec3 input_xyz_pos and nothing else), and the   *)
(* attribute's vector size is the arity of pos.                            *)
(***************************************************************************)
VecSize(type) == CASE type = "vec2" -> 2 [] type = "vec3" -> 3 [] type = "vec4" -> 4
                   [] OTHER -> 1

C8_PositionFunctionByArity ==
    LET f == program.hooks["local_position"]
        attrs == {d \in f.decls : d[1] = "attribute"}
    IN  f # NoFunc =>
            /\ opts.pos.arity = 2 =>
                   /\ f.template = "XYInputFunc"
                   /\ f.decls = {<<"attribute", "vec2", "input_xy_pos">>,
                                 <<"uniform", "float", "input_z_pos">>}
                   /\ \E z \in f.staged :
                          z.name = "input_z_pos" /\ z.kind = "float" /\ z.num = 0
            /\ opts.pos.arity = 3 =>
                   /\ f.template = "XYZInputFunc"
                   /\ f.decls = {<<"attribute", "vec3", "input_xyz_pos">>}
            /\ Cardinality(attrs) = 1
            /\ \A d \in attrs : VecSize(d[2]) = opts.pos.arity

C8_Witness ==
    /\ PaintReturned /\ EventsNamed("draw") # {}
    /\ opts.pos.arity = 3 /\ opts.pos.n = MaxN
    /\ program.hooks["local_position"].template = "XYZInputFunc"

(***************************************************************************)
(* C9: the color function bound to frag_color follows the shape of color:  *)
(* an array gives the two-stage RGBAAttributeFunc reading the color field  *)
(* of a staging buffer that has one row per vertex; a single RGBA value    *)
(* gives RGBAUniformFunc with uniform input_color staged to the current    *)
(* color and a staging buffer without color field; the attribute function  *)
(* is bound exactly when the staging buffer has a color field.             *)
(***************************************************************************)
C9_ColorFunctionByShape ==
    LET f == program.hooks["frag_color"]
    IN  f # NoFunc =>
            /\ vbo.exists
            /\ opts.color.array =>
                   /\ f.template = "RGBAAttributeFunc" /\ f.twoStage
                   /\ f.decls = {<<"attribute", "vec4", "input_color">>}
                   /\ vbo.data.hasColor /\ vbo.data.color = opts.color
                   /\ vbo.data.pos.n = opts.pos.n
                   /\ f.staged = {Staged("input_color", "buffer",
                                         [vbo EXCEPT !.field = "color"], 0, ColorNone)}
            /\ ~opts.color.array =>
                   /\ f.template = "RGBAUniformFunc"
                   /\ f.decls = {<<"uniform", "vec4", "input_color">>}
                   /\ f.staged = {Staged("input_color", "rgba", VboNone, 0, opts.color)}
                   /\ ~vbo.data.hasColor
            /\ (f.template = "RGBAAttributeFunc") <=> vbo.data.hasColor

C9_Witness ==
    /\ PaintReturned /\ EventsNamed("draw") # {}
    /\ opts.color.array /\ opts.color.n = MaxN /\ opts.pos.n = MaxN
    /\ program.hooks["frag_color"].template = "RGBAAttributeFunc"

(***************************************************************************)
(* C10: a paint on a Visual with rows in pos that returns has issued       *)
(* exactly one draw, of kind LINE_STRIP, over as many vertices as pos has  *)
(* rows, and has set the line width to the current width once, before the  *)
(* draw.                                                                   *)
(***************************************************************************)
C10_OneLineStripDraw ==
    (PaintReturned /\ HasPos) =>
        /\ Cardinality(EventsNamed("draw")) = 1
        /\ Cardinality(EventsNamed("glLineWidth")) = 1
        /\ \A k \in EventsNamed("draw") :
               /\ call.events[k] = Event("draw", "LINE_STRIP", opts.pos.n)
               /\ \A i \in EventsNamed("glLineWidth") :
                      i < k /\ call.events[i].a = opts.width

C10_Witness ==
    /\ PaintReturned /\ HasPos
    /\ opts.pos.n = MaxN /\ opts.width = MaxWidth
    /\ call.prevOp = "set_data" /\ prevEpoch.drew
    /\ call.events[Len(call.events)] = Event("draw", "LINE_STRIP", MaxN)

(***************************************************************************)
(* C11: whenever paint calls draw (line 202, reached right after the line  *)
(* width is set), every hook the master templates declare, post_hook       *)
(* included, has a bound instance.  (The code binds no post_hook for a     *)
(* single RGBA color, and after a build that raised it calls draw on the   *)
(* program left with some hooks unbound.)                                  *)
(***************************************************************************)
DrawCalled == call.op = "paint" /\ EventsNamed("glLineWidth") # {}

C11_EveryDeclaredHookBoundAtDraw ==
    DrawCalled => \A h \in Hooks : program.hooks[h] # NoFunc

(***************************************************************************)
(* C12: in every program of the Visual the names of the position, the      *)
(* transform and the color instance are pairwise disjoint: the function    *)
(* names of their hooks and the names of their attributes, uniforms and    *)
(* varyings; and no instance declares one name twice or names a variable   *)
(* as one of its functions.                                                *)
(***************************************************************************)
VarNames(func) == {d[3] : d \in func.decls \cup LinkedVaryings(func)}

\* the names of the instance bound to hook h; the color instance spans
\* frag_color and, when it has two stages, post_hook
InstanceFuncNames(h) ==
    {program.hooks[h].name}
        \cup (IF program.hooks[h].twoStage THEN {program.hooks["post_hook"].name} ELSE {})

InstanceNames(h) == InstanceFuncNames(h) \cup VarNames(program.hooks[h])

BoundInstances ==
    {h \in {"local_position", "map_local_to_nd", "frag_color"} : program.hooks[h] # NoFunc}

C12_GeneratedNamesDistinct ==
    /\ \A h1, h2 \in BoundInstances :
           h1 # h2 => InstanceNames(h1) \cap InstanceNames(h2) = {}
    /\ \A h \in BoundInstances :
           /\ InstanceFuncNames(h) \cap VarNames(program.hooks[h]) = {}
           /\ \A d1, d2 \in program.hooks[h].decls \cup LinkedVaryings(program.hooks[h]) :
                  d1[3] = d2[3] => d1 = d2
           /\ "" \notin InstanceNames(h)

C12_Witness ==
    /\ PaintReturned /\ EventsNamed("draw") # {}
    /\ BoundInstances = {"local_position", "map_local_to_nd", "frag_color"}
    /\ opts.pos.arity = 2 /\ opts.color.array
    /\ program.hooks["post_hook"] # NoFunc
    /\ Cardinality(UNION {InstanceNames(h) : h \in BoundInstances}) = 8

(***************************************************************************)
(* C13: assigning the transform discards the program and changes nothing   *)
(* else: the staging buffer, its record array and pos, color and width     *)
(* stay as they were.  The paint that follows constructs a new program     *)
(* whose map_local_to_nd hook is bound to the new transform, and when a    *)
(* staging buffer was cached it keeps that buffer and constructs none.     *)
(***************************************************************************)
C13_Assign ==
    call'.op = "transform" =>
        /\ ~program'.exists
        /\ vbo' = vbo /\ data' = data
        /\ opts' = [opts EXCEPT !.transform = call'.tr]

C13_Repaint ==
    (call.op = "transform" /\ call'.op = "paint" /\ call'.err = "" /\ HasPos) =>
        /\ \E i \in DOMAIN call'.events : call'.events[i].e = "CompositeProgram"
        /\ program'.hooks["map_local_to_nd"].template = opts.transform
        /\ program'.hooks["map_local_to_nd"].name = "map_local_to_nd"
        /\ opts.transform = call.tr
        /\ vbo.exists =>
               /\ vbo' = vbo
               /\ \A i \in DOMAIN call'.events : call'.events[i].e # "VertexBuffer"

C13_TransformDiscardsProgramOnly == [][C13_Assign /\ C13_Repaint]_vars

C13_Witness ==
    /\ PaintReturned /\ call.prevOp = "transform" /\ HasPos
    /\ EventsNamed("CompositeProgram") # {} /\ EventsNamed("VertexBuffer") = {}
    /\ EventsNamed("draw") # {}
    /\ opts.transform = "STTransform"
    /\ program.hooks["map_local_to_nd"].template = "STTransform"
    /\ prevEpoch.drew

(***************************************************************************)
(* C14: no stale program is drawn.  Whenever a paint has issued its draw,  *)
(* the staging buffer holds the current pos (and the current color, when   *)
(* that is an array), every buffer staged in the program is that staging   *)
(* buffer, the position function is the one for the current arity, the     *)
(* color function the one for the current color and its uniform the        *)
(* current RGBA value, and map_local_to_nd is bound to the current         *)
(* transform.                                                              *)
(***************************************************************************)
StagedBuffers(func) == {s \in func.staged : s.kind = "buffer"}

C14_NoStaleProgramDrawn ==
    (call.op = "paint" /\ EventsNamed("draw") # {}) =>
        /\ vbo.exists /\ vbo.data.pos = opts.pos
        /\ vbo.data.hasColor = opts.color.array
        /\ opts.color.array => vbo.data.color = opts.color
        /\ \A h \in Hooks : \A s \in StagedBuffers(program.hooks[h]) :
               s.vbo.exists /\ s.vbo.data = vbo.data
        /\ program.hooks["local_position"].template =
               (IF opts.pos.arity = 2 THEN "XYInputFunc" ELSE "XYZInputFunc")
        /\ StagedBuffers(program.hooks["local_position"]) # {}
        /\ program.hooks["frag_color"].template =
               (IF opts.color.array THEN "RGBAAttributeFunc" ELSE "RGBAUniformFunc")
        /\ ~opts.color.array =>
               \A s \in program.hooks["frag_color"].staged : s.color = opts.color
        /\ opts.color.array => StagedBuffers(program.hooks["frag_color"]) # {}
        /\ program.hooks["map_local_to_nd"].template = opts.transform

C14_Witness ==
    /\ call.op = "paint" /\ EventsNamed("draw") # {}
    /\ call.prevOp = "paint"
    /\ prevEpoch.drew
    /\ opts.transform = "STTransform" /\ opts.color = Red /\ opts.pos.n = MaxN

(***************************************************************************)
(* C15: a cached program implies a cached staging buffer, every buffer     *)
(* staged in a bound position or color function exists, and within a call  *)
(* the staging buffer is constructed before the program is constructed     *)
(* and before any hook is set.                                             *)
(***************************************************************************)
C15_ProgramImpliesVbo ==
    /\ program.exists => vbo.exists /\ data.set /\ vbo.data = data
    /\ \A h \in Hooks : \A s \in StagedBuffers(program.hooks[h]) : s.vbo.exists
    /\ \A i \in EventsNamed("VertexBuffer") :
           \A j \in EventsNamed("CompositeProgram") \cup EventsNamed("set_hook") : i < j
    /\ EventsNamed("set_hook") # {} => vbo.exists

C15_Witness ==
    /\ PaintReturned /\ program.exists /\ vbo.exists
    /\ EventsNamed("VertexBuffer") # {}
    /\ Cardinality(EventsNamed("set_hook")) = 3
    /\ StagedBuffers(program.hooks["frag_color"]) # {}

(***************************************************************************)
(* C16: for both arities the position attribute of the function bound to   *)
(* local_position is staged from the pos field of the staging buffer.      *)
(* (For 3 components the code stages the whole buffer, line 220.)          *)
(***************************************************************************)
C16_PositionStagedFromPosField ==
    \A s \in StagedBuffers(program.hooks["local_position"]) : s.vbo.field = "pos"

(***************************************************************************)
(* C17: construction is lazy.  The constructor, whatever it is given,      *)
(* leaves no staging buffer, no record array and no program and takes no   *)
(* build or draw step; buffers and programs are constructed and draws      *)
(* issued only by a paint on a Visual with rows in pos; and the first      *)
(* paint after construction that has rows in pos and returns has built     *)
(* the staging buffer and the one program of that period before its draw.  *)
(***************************************************************************)
C17_LazyConstruction ==
    /\ call.op = "__init__" =>
           /\ ~vbo.exists /\ ~program.exists /\ ~data.set
           /\ call.events = <<>>
           /\ epoch = NoEpoch /\ prevEpoch = NoEpoch
    /\ call.events # <<>> => call.op = "paint" /\ HasPos
    /\ (vbo.exists \/ program.exists) => HasPos
    /\ (PaintReturned /\ call.prevOp = "__init__" /\ HasPos) =>
           /\ RebuiltBothBeforeDraw
           /\ epoch = [builds |-> 1, compiles |-> 1, drew |-> TRUE]
           /\ prevEpoch = NoEpoch

C17_Witness ==
    /\ PaintReturned /\ call.prevOp = "__init__" /\ HasPos
    /\ opts.color.array /\ opts.width = MaxWidth
    /\ program.compiled /\ vbo.exists
    /\ prevEpoch = NoEpoch

====
